---- MODULE Spec2Model ----
(***************************************************************************)
(* Model of shuup/xtheme/plugins/products.py: the three product plugins    *)
(* (ProductHighlightPlugin, ProductCrossSellsPlugin,                       *)
(* ProductsFromCategoryPlugin) and ProductsFromCategoryForm.               *)
(*                                                                         *)
(* A plugin instance is built from a stored configuration mapping and then *)
(* rendered (get_context_data) or, for the category plugin, edited         *)
(* (ProductsFromCategoryForm.populate).  The class attribute               *)
(* ProductsFromCategoryPlugin.fields outlives every plugin instance.       *)
(***************************************************************************)
EXTENDS Integers, Sequences, FiniteSets, TLC

(* ---------------- bounds of the model ---------------- *)
MaxCount == 2
NumCategories == 2

(* ---------------- program constants ---------------- *)
DefaultCount == 4

(* ---------------- Python values ---------------- *)
(* Every value is a record of the same shape so that values of different   *)
(* Python types can be compared.                                           *)
Absent == [k |-> "absent", i |-> 0, s |-> ""]
NoneV == [k |-> "none", i |-> 0, s |-> ""]
IntV(n) == [k |-> "int", i |-> n, s |-> ""]
StrV(t) == [k |-> "str", i |-> 0, s |-> t]
BoolV(b) == [k |-> "bool", i |-> IF b THEN 1 ELSE 0, s |-> ""]
EnumV(t) == [k |-> "enum", i |-> 0, s |-> t]

(* dict.get(name, default): a key that is present wins, whatever its value *)
Get(config, name, default) ==
    IF config[name].k = "absent" THEN default ELSE config[name]

(* Python truthiness of a value, as tested by "if relation_type:" and      *)
(* "if category_id"                                                        *)
Truthy(v) ==
    CASE v.k = "absent" -> FALSE
      [] v.k = "none" -> FALSE
      [] v.k = "int" -> v.i # 0
      [] v.k = "bool" -> v.i = 1
      [] v.k = "str" -> v.s # ""
      [] OTHER -> TRUE

(* ---------------- enumerations ---------------- *)
NEWEST == StrV("newest")
BEST_SELLING == StrV("best_selling")
RANDOM == StrV("random")
HighlightType == {NEWEST, BEST_SELLING, RANDOM}

RELATED == EnumV("RELATED")
UPSELL == EnumV("UPSELL")
ProductCrossSellType == {RELATED, UPSELL}

(* ---------------- input domains ---------------- *)
Shops == {"shop1", "shop2"}
CountValues == {Absent} \cup {IntV(n) : n \in 0..MaxCount}
FlagValues == {Absent, BoolV(TRUE), BoolV(FALSE)}
TitleValues == {Absent, StrV("T")}
HighlightTypeValues == HighlightType \cup {Absent, NoneV, StrV("bogus")}
RelationTypeValues ==
    ProductCrossSellType \cup
    {Absent, NoneV, StrV(""), StrV("related"), StrV("upsell"), StrV("bogus")}
CategoryIds == 1..NumCategories
CategoryIdValues ==
    {Absent, NoneV, StrV(""), IntV(0)} \cup {IntV(n) : n \in 1..(NumCategories + 1)}
(* what a product helper may return *)
ProductLists == {<< >>, <<2, 1>>}
(* the rendering context: the theme always binds "request" (every plugin   *)
(* reads context["request"]); "product" is bound on product pages only     *)
Contexts == [request : {"req"}, shop : {"shop1"}, product : {Absent, IntV(7)}]

EmptyConfig ==
    [title |-> Absent, type |-> Absent, count |-> Absent,
     orderable_only |-> Absent, sale_items_only |-> Absent, category |-> Absent]

HighlightConfigs ==
    {[EmptyConfig EXCEPT !.title = t, !.type = ty, !.count = c,
                         !.orderable_only = o, !.sale_items_only = s] :
        t \in TitleValues, ty \in HighlightTypeValues, c \in CountValues,
        o \in FlagValues, s \in FlagValues}
CrossSellConfigs ==
    {[EmptyConfig EXCEPT !.title = t, !.type = ty, !.count = c, !.orderable_only = o] :
        t \in TitleValues, ty \in RelationTypeValues, c \in CountValues,
        o \in FlagValues}
CategoryConfigs ==
    {[EmptyConfig EXCEPT !.title = t, !.category = ca, !.count = c,
                         !.orderable_only = o, !.sale_items_only = s] :
        t \in TitleValues, ca \in CategoryIdValues, c \in CountValues,
        o \in FlagValues, s \in FlagValues}

(* ---------------- state ---------------- *)
(* plugin       the plugin instance of the current request: its kind, the  *)
(*              mapping handed to the constructor (stored), self.config    *)
(*              right after construction (constructed) and self.config now *)
(* categories   the Category table: id -> deleted flag and shop            *)
(* fieldInitial the .initial of the form fields held by the class          *)
(*              attribute ProductsFromCategoryPlugin.fields                *)
(* form         the ProductsFromCategoryForm of the current request        *)
(* last         what the last constructor or get_context_data call did     *)
VARIABLES plugin, categories, fieldInitial, form, last
vars == <<plugin, categories, fieldInitial, form, last>>

FieldNames == {"title", "count", "sale_items_only", "orderable_only"}
DeclaredInitial ==
    [title |-> StrV(""), count |-> IntV(DefaultCount),
     sale_items_only |-> BoolV(FALSE), orderable_only |-> BoolV(TRUE)]

NoPlugin == [kind |-> "none", stored |-> EmptyConfig, constructed |-> EmptyConfig,
             config |-> EmptyConfig]
NoForm == [populated |-> FALSE, category_initial |-> NoneV, category_queryset |-> {}]
NoResult == [keys |-> {}, request |-> "", title |-> NoneV, products |-> << >>,
             product |-> NoneV, type |-> NoneV, count |-> NoneV,
             orderable_only |-> NoneV]
NoContext == [request |-> "req", shop |-> "shop1", product |-> Absent]
Idle == [op |-> "none", raised |-> "", result |-> NoResult, calls |-> << >>,
         context |-> NoContext]

(* ---------------- external collaborators ---------------- *)
(* Plugin.get_translated_value(key): the configured value of the key       *)
get_translated_value(config, key) == Get(config, key, NoneV)

(* map_relation_type: an enum member maps to itself, a known code to its   *)
(* member, any other string signals LookupError.  Its behaviour on a value *)
(* that is neither is not fixed: it fails with LookupError or with another *)
(* error.                                                                  *)
Mapped(value) == [raised |-> "", value |-> value]
Failed(error) == [raised |-> error, value |-> NoneV]
map_relation_type(relation_type) ==
    CASE relation_type.k = "enum" -> {Mapped(relation_type)}
      [] relation_type.k = "str" ->
            IF relation_type.s = "related" THEN {Mapped(RELATED)}
            ELSE IF relation_type.s = "upsell" THEN {Mapped(UPSELL)}
            ELSE {Failed("LookupError")}
      [] OTHER -> {Failed("LookupError"), Failed("Error")}

(* A call of a product helper and what it returned *)
Call(helper, context, count, orderable_only, sale_items_only, cats, returned) ==
    [helper |-> helper, context |-> context, count |-> count,
     orderable_only |-> orderable_only, sale_items_only |-> sale_items_only,
     categories |-> cats, returned |-> returned]

(* ---------------- ProductHighlightPlugin ---------------- *)
HighlightHelperFallthrough(highlight_type) ==
    IF highlight_type = BEST_SELLING THEN "get_best_selling_products"
    ELSE IF highlight_type = RANDOM THEN "get_random_products"
    ELSE "get_newest_products"

HighlightHelperSwapped(highlight_type) ==
    IF highlight_type = NEWEST THEN "get_newest_products"
    ELSE IF highlight_type = BEST_SELLING THEN "get_random_products"
    ELSE IF highlight_type = RANDOM THEN "get_best_selling_products"
    ELSE ""

(* the if/elif chain on highlight_type; "" is the else branch *)
HighlightHelper(highlight_type) ==
    IF highlight_type = NEWEST THEN "get_newest_products"
    ELSE IF highlight_type = BEST_SELLING THEN "get_best_selling_products"
    ELSE IF highlight_type = RANDOM THEN "get_random_products"
    ELSE ""

HighlightOutcome(config, context, helper, count, orderable_only, sale_items_only, returned) ==
    [raised |-> "",
     calls |-> IF helper = "" THEN << >>
               ELSE <<Call(helper, context, count, orderable_only, sale_items_only,
                           << >>, returned)>>,
     result |-> [NoResult EXCEPT !.keys = {"request", "title", "products"},
                                 !.request = context.request,
                                 !.title = get_translated_value(config, "title"),
                                 !.products = IF helper = "" THEN << >> ELSE returned],
     config |-> config]

HighlightGetContextDataFixedCount(config, context, returned) ==
    HighlightOutcome(config, context,
                     HighlightHelper(Get(config, "type", NEWEST)),
                     IntV(DefaultCount),
                     Get(config, "orderable_only", BoolV(TRUE)),
                     Get(config, "sale_items_only", BoolV(FALSE)),
                     returned)

HighlightGetContextData(config, context, returned) ==
    HighlightOutcome(config, context,
                     HighlightHelper(Get(config, "type", NEWEST)),
                     Get(config, "count", IntV(DefaultCount)),
                     Get(config, "orderable_only", BoolV(TRUE)),
                     Get(config, "sale_items_only", BoolV(FALSE)),
                     returned)

(* ---------------- ProductCrossSellsPlugin ---------------- *)
(* __init__: the outcomes are the error raised, if any, and the mapping    *)
(* handed to the base constructor                                          *)
CrossSellInitOutcome(config, o, caught) ==
    IF o.raised = "" THEN [raised |-> "", config |-> [config EXCEPT !.type = o.value]]
    ELSE IF o.raised \in caught
         THEN [raised |-> "", config |-> [config EXCEPT !.type = RELATED]]
    ELSE [raised |-> o.raised, config |-> config]

CrossSellInitNoCatch(config) ==
    IF Truthy(Get(config, "type", NoneV))
    THEN {CrossSellInitOutcome(config, o, {}) :
            o \in map_relation_type(Get(config, "type", NoneV))}
    ELSE {[raised |-> "", config |-> config]}

CrossSellInit(config) ==
    IF Truthy(Get(config, "type", NoneV))
    THEN {CrossSellInitOutcome(config, o, {"LookupError"}) :
            o \in map_relation_type(Get(config, "type", NoneV))}
    ELSE {[raised |-> "", config |-> config]}

CrossSellOutcome(config, context, o, after) ==
    IF o.raised \notin {"", "LookupError"}
    THEN [raised |-> o.raised, calls |-> << >>, result |-> NoResult, config |-> config]
    ELSE [raised |-> "",
          calls |-> << >>,
          result |-> [NoResult EXCEPT
                        !.keys = {"request", "title", "product", "type", "count",
                                  "orderable_only"},
                        !.request = context.request,
                        !.title = get_translated_value(config, "title"),
                        !.product = Get(context, "product", NoneV),
                        !.type = IF o.raised = "" THEN o.value ELSE RELATED,
                        !.count = Get(config, "count", IntV(DefaultCount)),
                        !.orderable_only = Get(config, "orderable_only", BoolV(TRUE))],
          config |-> IF after
                     THEN [config EXCEPT
                             !.type = IF o.raised = "" THEN o.value ELSE RELATED]
                     ELSE config]

CrossSellGetContextDataStoresType(config, context) ==
    {CrossSellOutcome(config, context, o, TRUE) :
        o \in map_relation_type(Get(config, "type", NoneV))}

CrossSellGetContextData(config, context) ==
    {CrossSellOutcome(config, context, o, FALSE) :
        o \in map_relation_type(Get(config, "type", NoneV))}

(* ---------------- ProductsFromCategoryPlugin ---------------- *)
(* Category.objects.filter(id=category_id).first(): the row with that id,  *)
(* 0 when there is none                                                    *)
CategoryFilterFirst(cats, category_id) ==
    IF category_id.k = "int" /\ category_id.i \in DOMAIN cats THEN category_id.i ELSE 0

(* Category.objects.all_except_deleted(shop=shop) *)
all_except_deleted(cats, shop) ==
    {c \in DOMAIN cats : ~cats[c].deleted /\ cats[c].shop = shop}

CategoryOutcome(config, context, category, returned) ==
    [raised |-> "",
     calls |-> IF category = 0 THEN << >>
               ELSE <<Call("get_products_for_categories", context,
                           Get(config, "count", NoneV),
                           Get(config, "orderable_only", BoolV(TRUE)),
                           Get(config, "sale_items_only", BoolV(FALSE)),
                           <<category>>, returned)>>,
     result |-> [NoResult EXCEPT !.keys = {"request", "title", "products"},
                                 !.request = context.request,
                                 !.title = get_translated_value(config, "title"),
                                 !.products = IF category = 0 THEN << >> ELSE returned],
     config |-> config]

CategoryGetContextDataNoLookup(config, context, cats, returned) ==
    CategoryOutcome(config, context,
                    IF Get(config, "category", NoneV).k = "int"
                    THEN Get(config, "category", NoneV).i ELSE 0,
                    returned)

CategoryGetContextData(config, context, cats, returned) ==
    CategoryOutcome(config, context,
                    IF Truthy(Get(config, "category", NoneV))
                    THEN CategoryFilterFirst(cats, Get(config, "category", NoneV))
                    ELSE 0,
                    returned)

(* ---------------- ProductsFromCategoryForm ---------------- *)
(* the loop of populate: every (name, field) tuple of plugin.fields gets   *)
(* field.initial = config.get(name, field.initial); the field objects are  *)
(* those of the class attribute, which the form then holds                 *)
PopulateFields(initial, config) ==
    [name \in FieldNames |-> Get(config, name, initial[name])]

(* ---------------- initial state ---------------- *)
Init ==
    /\ plugin = NoPlugin
    /\ categories \in {cats \in [CategoryIds -> [deleted : BOOLEAN, shop : Shops]] :
                          \A c \in CategoryIds :
                              cats[c].shop = IF c % 2 = 1 THEN "shop1" ELSE "shop2"}
    /\ fieldInitial = DeclaredInitial
    /\ form = NoForm
    /\ last = Idle

(* ---------------- actions ---------------- *)
(* A plugin instance lives for one rendering or one editor request: the    *)
(* theme builds it from the stored mapping, uses it and drops it.          *)
Constructed(kind, stored, config) ==
    [kind |-> kind, stored |-> stored, constructed |-> config, config |-> config]

ConstructHighlight(config) ==
    /\ plugin.kind = "none"
    /\ plugin' = Constructed("highlight", config, config)
    /\ form' = NoForm
    /\ last' = [Idle EXCEPT !.op = "init"]
    /\ UNCHANGED <<categories, fieldInitial>>

ConstructCrossSell(config) ==
    \E o \in CrossSellInit(config) :
        /\ plugin.kind = "none"
        /\ plugin' = IF o.raised = "" THEN Constructed("cross_sell", config, o.config)
                     ELSE NoPlugin
        /\ form' = NoForm
        /\ last' = [Idle EXCEPT !.op = "init", !.raised = o.raised]
        /\ UNCHANGED <<categories, fieldInitial>>

ConstructCategory(config) ==
    /\ plugin.kind = "none"
    /\ plugin' = Constructed("category", config, config)
    /\ form' = NoForm
    /\ last' = [Idle EXCEPT !.op = "init"]
    /\ UNCHANGED <<categories, fieldInitial>>

Rendered(o, context) ==
    /\ plugin' = [plugin EXCEPT !.config = o.config]
    /\ last' = [op |-> "render", raised |-> o.raised, result |-> o.result,
                calls |-> o.calls, context |-> context]
    /\ UNCHANGED <<categories, fieldInitial, form>>

RenderHighlight(context, returned) ==
    /\ plugin.kind = "highlight"
    /\ Rendered(HighlightGetContextData(plugin.config, context, returned), context)

RenderCrossSell(context) ==
    /\ plugin.kind = "cross_sell"
    /\ \E o \in CrossSellGetContextData(plugin.config, context) : Rendered(o, context)

RenderCategory(context, returned) ==
    /\ plugin.kind = "category"
    /\ Rendered(CategoryGetContextData(plugin.config, context, categories, returned),
                context)

Populate(shop) ==
    /\ plugin.kind = "category"
    /\ fieldInitial' = PopulateFields(fieldInitial, plugin.config)
    /\ form' = [populated |-> TRUE,
                category_initial |-> Get(plugin.config, "category", NoneV),
                category_queryset |-> all_except_deleted(categories, shop)]
    /\ UNCHANGED <<plugin, categories, last>>

(* the request is over: the instance and its form are dropped, the class   *)
(* attributes and the database stay                                        *)
Discard ==
    /\ plugin.kind # "none"
    /\ plugin' = NoPlugin
    /\ form' = NoForm
    /\ last' = Idle
    /\ UNCHANGED <<categories, fieldInitial>>

Next ==
    \/ \E config \in HighlightConfigs : ConstructHighlight(config)
    \/ \E config \in CrossSellConfigs : ConstructCrossSell(config)
    \/ \E config \in CategoryConfigs : ConstructCategory(config)
    \/ \E context \in Contexts, returned \in ProductLists :
          RenderHighlight(context, returned)
    \/ \E context \in Contexts : RenderCrossSell(context)
    \/ \E context \in Contexts, returned \in ProductLists :
          RenderCategory(context, returned)
    \/ Discard

Spec == Init /\ [][Next]_vars

(* the editor: plugins of the category kind are instantiated and their     *)
(* form populated, request after request                                   *)
NextForm ==
    \/ \E config \in CategoryConfigs : ConstructCategory(config)
    \/ \E shop \in Shops : Populate(shop)
    \/ Discard

SpecForm == Init /\ [][NextForm]_vars

(* ---------------- properties ---------------- *)
RenderedBy(kind) == last.op = "render" /\ plugin.kind = kind
StoredCategory == Get(plugin.stored, "category", NoneV)
ExpectedHelper ==
    [newest |-> "get_newest_products", best_selling |-> "get_best_selling_products",
     random |-> "get_random_products"]

(* C1: when the stored highlight type is present and is none of "newest",  *)
(* "best_selling", "random", get_context_data raises nothing, calls no     *)
(* helper and returns the empty list as "products".                        *)
C1_UnknownTypeEmpty ==
    (RenderedBy("highlight") /\ plugin.stored.type.k # "absent"
        /\ plugin.stored.type \notin HighlightType)
    => (last.raised = "" /\ last.calls = << >> /\ last.result.products = << >>)

C1_Witness ==
    /\ RenderedBy("highlight")
    /\ plugin.stored.type = StrV("bogus")
    /\ last.result.products = << >>
    /\ last.result.keys = {"request", "title", "products"}

(* C2 as stated: for every stored relation-type string on which the        *)
(* mapping signals a lookup failure, __init__ writes RELATED into the      *)
(* configuration, get_context_data returns RELATED as "type", and no       *)
(* LookupError leaves either of them.                                      *)
C2_Original ==
    /\ last.raised # "LookupError"
    /\ (plugin.kind = "cross_sell" /\ plugin.stored.type.k = "str"
          /\ Failed("LookupError") \in map_relation_type(plugin.stored.type))
       => /\ plugin.constructed.type = RELATED
          /\ last.op = "render" => (last.raised = "" /\ last.result.type = RELATED)

(* C2 amended: the same for every NON-EMPTY such string; for the empty     *)
(* string __init__ leaves the stored "type" as it is and get_context_data  *)
(* still returns RELATED; no LookupError leaves either of them.            *)
C2_UnknownRelationDefaults ==
    /\ last.raised # "LookupError"
    /\ (plugin.kind = "cross_sell" /\ plugin.stored.type.k = "str"
          /\ Failed("LookupError") \in map_relation_type(plugin.stored.type))
       => /\ plugin.constructed.type =
                IF plugin.stored.type.s # "" THEN RELATED ELSE plugin.stored.type
          /\ last.op = "render" => (last.raised = "" /\ last.result.type = RELATED)

C2_Witness ==
    /\ RenderedBy("cross_sell")
    /\ plugin.stored.type = StrV("bogus")
    /\ plugin.constructed.type = RELATED
    /\ last.result.type = RELATED

(* C3: when the stored category identifier is absent, empty or the id of   *)
(* no category, the category plugin raises nothing, does not call the      *)
(* category helper and returns the empty list as "products".               *)
C3_NoCategoryEmpty ==
    (RenderedBy("category")
        /\ (~Truthy(StoredCategory)
              \/ (StoredCategory.k = "int" /\ StoredCategory.i \notin CategoryIds)))
    => (last.raised = "" /\ last.calls = << >> /\ last.result.products = << >>)

C3_Witness ==
    /\ RenderedBy("category")
    /\ plugin.stored.category = IntV(NumCategories + 1)
    /\ last.calls = << >>
    /\ last.result.keys = {"request", "title", "products"}

(* C4 as stated: when the stored identifier names a category that is       *)
(* deleted or belongs to another shop than the request's, the category     *)
(* plugin calls no helper and returns the empty list as "products".        *)
C4_Original ==
    (RenderedBy("category") /\ StoredCategory.k = "int"
        /\ StoredCategory.i \in CategoryIds
        /\ (categories[StoredCategory.i].deleted
              \/ categories[StoredCategory.i].shop # last.context.shop))
    => (last.calls = << >> /\ last.result.products = << >>)

(* C5: a stored count reaches the helper unchanged: every helper call of   *)
(* the highlight and the category plugin carries the stored count, and the *)
(* cross-sell plugin returns the stored count as "count".                  *)
C5_CountPassedThrough ==
    (last.op = "render" /\ plugin.stored.count.k # "absent")
    => /\ \A n \in 1..Len(last.calls) : last.calls[n].count = plugin.stored.count
       /\ (plugin.kind = "cross_sell" /\ last.raised = "")
             => last.result.count = plugin.stored.count

C5_Witness ==
    /\ RenderedBy("highlight")
    /\ plugin.stored.count = IntV(1)
    /\ Len(last.calls) = 1
    /\ last.calls[1].count = IntV(1)

C7_KnownTypeCallsItsHelper ==
    (RenderedBy("highlight") /\ Get(plugin.stored, "type", NEWEST) \in HighlightType)
    => /\ last.raised = ""
       /\ Len(last.calls) = 1
       /\ last.calls[1].helper = ExpectedHelper[Get(plugin.stored, "type", NEWEST).s]
       /\ last.calls[1].context = last.context
       /\ last.calls[1].count = Get(plugin.stored, "count", IntV(DefaultCount))
       /\ last.calls[1].orderable_only =
             Get(plugin.stored, "orderable_only", BoolV(TRUE))
       /\ last.calls[1].sale_items_only =
             Get(plugin.stored, "sale_items_only", BoolV(FALSE))
       /\ last.result.products = last.calls[1].returned

C7_Witness ==
    /\ RenderedBy("highlight")
    /\ plugin.stored.type = BEST_SELLING
    /\ plugin.stored.count.k = "absent"
    /\ Len(last.calls) = 1
    /\ last.calls[1].helper = "get_best_selling_products"
    /\ last.result.products = <<2, 1>>

(* C8 as stated: in every render of any of the three plugins the count     *)
(* handed to a helper, or returned by the cross-sell plugin, is an integer *)
(* that is at least 1.                                                     *)
C8_Original ==
    last.op = "render"
    => /\ \A n \in 1..Len(last.calls) :
             last.calls[n].count.k = "int" /\ last.calls[n].count.i >= 1
       /\ (plugin.kind = "cross_sell" /\ last.raised = "")
             => (last.result.count.k = "int" /\ last.result.count.i >= 1)

(* C9 as stated: after populate, the initial value the form shows for an   *)
(* option that its own plugin's configuration lacks is the declared        *)
(* default of the field (title "", count 4, sale_items_only False,         *)
(* orderable_only True).  The form holds the field objects of the class    *)
(* attribute, so what it shows is fieldInitial.                            *)
C9_Original ==
    form.populated
    => \A name \in FieldNames :
          plugin.config[name].k = "absent" => fieldInitial[name] = DeclaredInitial[name]

(* C10: get_context_data never changes the configuration: self.config is   *)
(* always the mapping held after construction, which for the cross-sell    *)
(* plugin is the stored one with a truthy "type" replaced by its enum      *)
(* member and every other key untouched.                                   *)
C10_ConfigReadOnly ==
    /\ plugin.config = plugin.constructed
    /\ plugin.kind \in {"highlight", "category"} => plugin.constructed = plugin.stored
    /\ plugin.kind = "cross_sell"
       => /\ \A key \in DOMAIN EmptyConfig \ {"type"} :
                plugin.constructed[key] = plugin.stored[key]
          /\ IF Truthy(plugin.stored.type)
             THEN plugin.constructed.type \in ProductCrossSellType
             ELSE plugin.constructed.type = plugin.stored.type

C10_Witness ==
    /\ RenderedBy("cross_sell")
    /\ last.raised = ""
    /\ plugin.stored.type = StrV("upsell")
    /\ plugin.config.type = UPSELL
    /\ plugin.stored.count = IntV(1)
    /\ plugin.config.count = IntV(1)
====
